---------------------------- MODULE Spec2Model ----------------------------
(***************************************************************************)
(* Course entitlement and session engine of the SCSM backend               *)
(* (Express handlers of server.js in its latest revision, Mongoose model   *)
(* models/User.js).  The record store is the sequence `users` (natural     *)
(* order = insertion order, which is what findOne returns first), the      *)
(* payment gateway is the function `gateway` from order id to status.      *)
(*                                                                         *)
(* Spec      : every request handler runs to completion before the next    *)
(*             one starts (one action per handler).                        *)
(* SpecConc  : create-order and verify-payment are split at their awaits   *)
(*             (findOne ... save), so that requests interleave on the same *)
(*             document.                                                   *)
(* SpecExam  : start-exam is split at its await in the same way.           *)
(***************************************************************************)
EXTENDS Integers, Sequences, FiniteSets, TLC

\* ------------------------------------------------------------------ bounds
MaxTicks    == 1      \* clock jumps per behaviour
MaxRand     == 0      \* largest value Math.random()*1000 is drawn from here
MaxOrders   == 2      \* create-order calls that pass validation
MaxConsume  == 2      \* successful start-exam calls
MaxHeld     == 1      \* replaced tokens the clients still remember
MaxInflight == 2      \* create-order requests suspended at an await

\* ------------------------------------------------------- program constants
validityDays     == 20
DaySeconds       == 86400
LoginTokenDays   == 1
VerifyTokenDays  == 20
InitialAttempts  == 30
ComboAmount      == 199
CommAmount       == 49

Range(s) == {s[i] : i \in 1..Len(s)}

\* ------------------------------------------------------------ option type
None       == <<>>
Some(v)    == <<v>>
IsSome(o)  == Len(o) = 1
Val(o)     == o[1]

\* ------------------------------------------------------------------ dates
\* The clock counts whole seconds: a Date is the second it falls in, and
\* two calls inside the same second are calls at the same instant.
AddDays(d, n) == d + n * DaySeconds

\* ---------------------------------------------------------------- strings
\* Names and e-mails are sequences of one-character strings.
ToLowerChar(c) == CASE c = "A" -> "a"
                    [] c = "B" -> "b"
                    [] c = "X" -> "x"
                    [] OTHER   -> c

ToLowerCase(s) == [i \in 1..Len(s) |-> ToLowerChar(s[i])]

RECURSIVE TrimLeft(_)
TrimLeft(s) == IF s # <<>> /\ Head(s) = " " THEN TrimLeft(Tail(s)) ELSE s

RECURSIVE TrimRight(_)
TrimRight(s) == IF s # <<>> /\ s[Len(s)] = " "
                THEN TrimRight(SubSeq(s, 1, Len(s) - 1)) ELSE s

Trim(s) == TrimRight(TrimLeft(s))

\* str.replace(/\s+/g, ' ')
RECURSIVE CollapseWs(_)
CollapseWs(s) ==
    IF Len(s) < 2 THEN s
    ELSE IF s[1] = " " /\ s[2] = " " THEN CollapseWs(Tail(s))
    ELSE <<s[1]>> \o CollapseWs(Tail(s))

normalize(s) == Trim(CollapseWs(ToLowerCase(s)))

\* new RegExp(`^${email}$`, 'i').test(stored): over the alphabet of the
\* model the only metacharacter is ".", which matches any character.
EmailRegexMatch(pattern, stored) ==
    /\ Len(pattern) = Len(stored)
    /\ \A i \in 1..Len(pattern) :
          \/ pattern[i] = "."
          \/ ToLowerChar(pattern[i]) = ToLowerChar(stored[i])

\* ------------------------------------------------------------ input sets
NameAB    == <<"a", " ", "b">>
NameABws  == <<"A", " ", " ", "b">>
NameA     == <<"a">>
NameABC   == <<"a", " ", "b", " ", "c">>
Names     == {NameAB, NameABws, NameA, NameABC}
EmailA    == <<"a", "@", "x">>
EmailAuc  == <<"A", "@", "X">>
EmailB    == <<"b", "@", "x">>

VARIABLES users, gateway, now, ticks, orders, consumed, held,
          configured, inflight, req, resp

vars == <<users, gateway, now, ticks, orders, consumed, held,
          configured, inflight, req, resp>>

\* Date.now(), new Date()
DateNow == now

\* ------------------------------------------------------------- order ids
\* "ORDER_" + Date.now() + "_" + Math.floor(Math.random() * 1000)
OrderId(date, rnd) == <<"ORDER", date, rnd>>
LegacyMarker       == <<"LEGACY_MIGRATION", 0, 0>>

\* ------------------------------------------------------ Mongoose schema
\* Paths of one element of User.courses; a path outside the schema is
\* dropped when the element is cast (strict mode).
CourseSchemaPaths == {"courseId", "courseName", "subject", "isPaid", "orderId",
                      "paymentDate", "expiryDate", "attemptsLeft"}

SchemaCast(c) == [f \in (DOMAIN c) \cap CourseSchemaPaths |-> c[f]]

\* c.modulesCompleted || []
ModulesCompletedOf(c) ==
    IF "modulesCompleted" \in DOMAIN c THEN c.modulesCompleted ELSE <<>>

\* --------------------------------------------------------- store queries
\* The least index of S (the positions that satisfy a query), 0 when
\* there is none.
FirstIndex(S) ==
    IF S = {} THEN 0 ELSE CHOOSE i \in S : \A j \in S : i <= j

\* User.findOne({ mobile })
FindUserByMobile(us, mobile) ==
    FirstIndex({n \in 1..Len(us) :
        us[n].mobile = mobile})

\* User.findOne({ mobile, email: { $regex: new RegExp(`^${email}$`, 'i') } })
FindUserByMobileAndEmail(us, mobile, email) ==
    FirstIndex({n \in 1..Len(us) :
        us[n].mobile = mobile /\ EmailRegexMatch(email, us[n].email)})

\* User.findOne({ 'courses.orderId': orderId })
FindUserByOrderId(us, orderId) ==
    FirstIndex({n \in 1..Len(us) :
        \E i \in 1..Len(us[n].courses) : us[n].courses[i].orderId = orderId})

\* User.findById(id)
FindUserById(us, id) ==
    FirstIndex({n \in 1..Len(us) :
        us[n]._id = id})

\* ---------------------------------------------------------- create-order
\* ENFORCE SERVER-SIDE PRICING
FinalAmount(courseId, orderAmount) ==
    IF courseId = "soft-lang-combo" THEN ComboAmount
    ELSE IF courseId = "comm-personality" THEN CommAmount
    ELSE orderAmount

\* Mutant of CoursesToProcess: an identifier outside the catalog resolves
\* to no course.
CoursesToProcessCatalogOnly(courseId) ==
    IF courseId = "soft-lang-combo"
    THEN << [id |-> "fttp", name |-> "Soft Skills Practice", subject |-> "CSS"],
            [id |-> "dttp", name |-> "Language Skills Practice", subject |-> "CLS"] >>
    ELSE IF courseId = "comm-personality"
    THEN << [id |-> "comm-personality",
             name |-> "Communication & Personality Development",
             subject |-> "PD"] >>
    ELSE IF courseId \in {"fttp", "dttp"}
    THEN << [id |-> courseId,
             name |-> IF courseId = "fttp" THEN "Soft Skills Practice"
                      ELSE "Language Skills Practice",
             subject |-> IF courseId = "fttp" THEN "CSS" ELSE "CLS"] >>
    ELSE << >>

CoursesToProcess(courseId) ==
    IF courseId = "soft-lang-combo"
    THEN << [id |-> "fttp", name |-> "Soft Skills Practice", subject |-> "CSS"],
            [id |-> "dttp", name |-> "Language Skills Practice", subject |-> "CLS"] >>
    ELSE IF courseId = "comm-personality"
    THEN << [id |-> "comm-personality",
             name |-> "Communication & Personality Development",
             subject |-> "PD"] >>
    ELSE << [id |-> courseId,
             name |-> IF courseId = "fttp" THEN "Soft Skills Practice"
                      ELSE IF courseId = "dttp" THEN "Language Skills Practice"
                      ELSE courseId,
             subject |-> IF courseId = "fttp" THEN "CSS"
                         ELSE IF courseId = "dttp" THEN "CLS" ELSE "OTHER"] >>

NewCourse(item, orderId, date, expiry) ==
    SchemaCast([courseId |-> item.id, courseName |-> item.name,
                subject |-> item.subject, isPaid |-> FALSE,
                orderId |-> orderId, paymentDate |-> date,
                expiryDate |-> expiry, attemptsLeft |-> InitialAttempts,
                modulesCompleted |-> <<>>])

\* user.courses.find(c => c.courseId === id)
FindCourse(courses, id) ==
    FirstIndex({n \in 1..Len(courses) :
        courses[n].courseId = id})

\* Mongoose's version key of a user document. It is incremented by every
\* save that pushes onto courses or replaces the array; each such save of
\* this server lengthens courses and nothing shortens it, so the length
\* identifies the version.
Version(user) == Len(user.courses)

\* Mutant of MergeCourse: a re-purchase resets the attempts of the course.
MergeCourseResetting(courses, read, item, orderId, date, expiry) ==
    LET i == FindCourse(read, item.id) IN
    IF i # 0
    THEN [courses EXCEPT ![i] = [@ EXCEPT !.orderId = orderId,
                                          !.isPaid = FALSE,
                                          !.paymentDate = date,
                                          !.expiryDate = expiry,
                                          !.attemptsLeft = InitialAttempts]]
    ELSE Append(courses, NewCourse(item, orderId, date, expiry))

\* One iteration of the loop over coursesToProcess for an existing user,
\* as the save applies it to the stored array `courses`: `read` is the
\* array findOne returned. A course found in `read` is updated in place
\* ($set on its position), another one is pushed.
MergeCourse(courses, read, item, orderId, date, expiry) ==
    LET i == FindCourse(read, item.id) IN
    IF i # 0
    THEN [courses EXCEPT ![i] = [@ EXCEPT !.orderId = orderId,
                                          !.isPaid = FALSE,
                                          !.paymentDate = date,
                                          !.expiryDate = expiry]]
    ELSE Append(courses, NewCourse(item, orderId, date, expiry))

RECURSIVE MergeCourses(_, _, _, _, _, _)
MergeCourses(courses, read, items, orderId, date, expiry) ==
    IF items = <<>> THEN courses
    ELSE MergeCourses(MergeCourse(courses, read, Head(items), orderId, date, expiry),
                      read, Tail(items), orderId, date, expiry)

NewUser(id, name, email, mobile, centerName, courses) ==
    [_id |-> id, name |-> name, email |-> email, mobile |-> mobile,
     centerName |-> IF centerName = "" THEN "Online Student" ELSE centerName,
     courses |-> courses, sessionToken |-> None,
     isPaid |-> FALSE, expiryDate |-> None, attemptsLeft |-> None]

\* let user = await User.findOne({ mobile, email: ... })
FindOneForOrder(us, mobile, email) ==
    LET i == FindUserByMobileAndEmail(us, mobile, email)
    IN  IF i = 0 THEN None ELSE Some(us[i])

\* The "Database Operations" block after findOne answered `found`: the
\* store after it. The store is unchanged when it is down, when User.create
\* hits the unique index on mobile, and when a save that updates a course
\* in place finds that the document's version has moved on (the error is
\* caught and logged). `date` is the time of the save, `expiry` was
\* computed when the request arrived.
CreateOrderStore(us, found, dbOk, name, mobile, email, centerName, courseId, orderId, date, expiry) ==
    LET items == CoursesToProcess(courseId) IN
    IF ~dbOk THEN us
    ELSE IF found = None
    THEN IF FindUserByMobile(us, mobile) # 0 THEN us
         ELSE Append(us, NewUser(Len(us) + 1, name, email, mobile, centerName,
                 [k \in 1..Len(items) |-> NewCourse(items[k], orderId, date, expiry)]))
    ELSE LET i       == FindUserById(us, Val(found)._id)
             read    == Val(found).courses
             inPlace == \E k \in 1..Len(items) : FindCourse(read, items[k].id) # 0
         IN  IF inPlace /\ Version(us[i]) # Version(Val(found)) THEN us
             ELSE [us EXCEPT ![i].courses =
                      MergeCourses(@, read, items, orderId, date, expiry)]

NoReq  == [op |-> "none", mobile |-> "", email |-> <<>>, name |-> <<>>,
           courseId |-> "", amount |-> 0, orderId |-> None, token |-> None,
           modules |-> <<>>, isArray |-> TRUE, dbOk |-> TRUE, gwOk |-> TRUE]
NoResp == [op |-> "none", status |-> 0, success |-> FALSE, token |-> None,
           courses |-> <<>>, orderId |-> None, amount |-> 0,
           attemptsLeft |-> None, modules |-> <<>>, authorized |-> FALSE,
           details |-> None]

\* What the gateway answers to POST /orders.
GatewayAccepts(gw, orderId, gwOk) == gwOk /\ orderId \notin DOMAIN gw

\* error.response?.data of a request the gateway refused.
GatewayErrorPayload == "order rejected"

\* Mutant of ProceedsToGateway: a failed save ends the request.
ProceedsToGatewayIfSaved(dbOk) == dbOk

\* catch (dbError) { console.error(...) }: whatever the store did, the
\* handler goes on to the gateway.
ProceedsToGateway(dbOk) == TRUE

\* The handler from the answer of findOne to the response.
CreateOrderFinish(name, mobile, email, orderAmount, courseId, centerName, hasReturnUrl, dbOk, gwOk, orderId, expiry, found) ==
    /\ req' = [NoReq EXCEPT !.op = "create-order", !.mobile = mobile,
                   !.email = email, !.name = name,
                   !.courseId = courseId, !.amount = orderAmount,
                   !.dbOk = dbOk, !.gwOk = gwOk]
    /\ users' = CreateOrderStore(users, found, dbOk, name, mobile, email,
                                 centerName, courseId, orderId, DateNow, expiry)
    /\ IF ~ProceedsToGateway(dbOk) \/ ~configured \/ ~hasReturnUrl
       THEN /\ resp' = [NoResp EXCEPT !.op = "create-order",
                             !.status = 500, !.orderId = Some(orderId)]
            /\ UNCHANGED gateway
       ELSE IF ~GatewayAccepts(gateway, orderId, gwOk)
       THEN /\ resp' = [NoResp EXCEPT !.op = "create-order",
                             !.status = 500, !.orderId = Some(orderId),
                             !.details = Some(GatewayErrorPayload)]
            /\ UNCHANGED gateway
       ELSE /\ resp' = [NoResp EXCEPT !.op = "create-order",
                             !.status = 200, !.success = TRUE,
                             !.orderId = Some(orderId),
                             !.amount = FinalAmount(courseId, orderAmount)]
            /\ gateway' = gateway @@ (orderId :> "ACTIVE")

\* !customerName || !customerPhone || !customerEmail || !finalAmount
CreateOrderRejects(name, mobile, email, orderAmount, courseId) ==
    name = <<>> \/ mobile = "" \/ email = <<>>
        \/ FinalAmount(courseId, orderAmount) = 0

\* A create-order request served without another request in between.
CreateOrder(name, mobile, email, orderAmount, courseId, centerName, hasReturnUrl, dbOk, gwOk, rnd) ==
    /\ IF CreateOrderRejects(name, mobile, email, orderAmount, courseId)
       THEN /\ req' = [NoReq EXCEPT !.op = "create-order", !.mobile = mobile,
                           !.email = email, !.name = name,
                           !.courseId = courseId, !.amount = orderAmount,
                           !.dbOk = dbOk, !.gwOk = gwOk]
            /\ resp' = [NoResp EXCEPT !.op = "create-order", !.status = 400]
            /\ UNCHANGED <<users, gateway, orders>>
       ELSE /\ orders < MaxOrders
            /\ orders' = orders + 1
            /\ CreateOrderFinish(name, mobile, email, orderAmount, courseId,
                   centerName, hasReturnUrl, dbOk, gwOk,
                   OrderId(DateNow, rnd), AddDays(DateNow, validityDays),
                   FindOneForOrder(users, mobile, email))
    /\ UNCHANGED <<now, ticks, consumed, held, configured, inflight>>

\* A valid create-order request up to `await User.findOne(...)`: the order
\* id and the expiry are computed, the query is answered, and the handler
\* waits while other requests are served.
CreateOrderFind(name, mobile, email, orderAmount, courseId, rnd) ==
    /\ ~CreateOrderRejects(name, mobile, email, orderAmount, courseId)
    /\ Len(inflight) < MaxInflight
    /\ orders < MaxOrders
    /\ orders' = orders + 1
    /\ inflight' = Append(inflight,
           [op |-> "create-order", token |-> None,
            name |-> name, mobile |-> mobile, email |-> email,
            amount |-> orderAmount, courseId |-> courseId,
            orderId |-> OrderId(DateNow, rnd),
            expiry |-> AddDays(DateNow, validityDays),
            found |-> FindOneForOrder(users, mobile, email)])
    /\ UNCHANGED <<users, gateway, now, ticks, consumed, held, configured,
                   req, resp>>

\* The n-th waiting create-order request resumes: merge, save, gateway call
\* and response.
CreateOrderSave(n) ==
    /\ n \in 1..Len(inflight)
    /\ inflight[n].op = "create-order"
    /\ LET w == inflight[n] IN
       CreateOrderFinish(w.name, w.mobile, w.email, w.amount, w.courseId, "",
                         TRUE, TRUE, TRUE, w.orderId, w.expiry, w.found)
    /\ inflight' = SubSeq(inflight, 1, n - 1) \o SubSeq(inflight, n + 1, Len(inflight))
    /\ UNCHANGED <<now, ticks, orders, consumed, held, configured>>

\* ------------------------------------------------------------- the clock
TickSeconds(d) ==
    /\ ticks < MaxTicks
    /\ ticks' = ticks + 1
    /\ now' = now + d
    /\ UNCHANGED <<users, gateway, orders, consumed, held,
                   configured, inflight, req, resp>>

\* The customer pays at the gateway.
GatewayPaid(o) ==
    /\ gateway[o] = "ACTIVE"
    /\ gateway' = [gateway EXCEPT ![o] = "PAID"]
    /\ UNCHANGED <<users, now, ticks, orders, consumed, held,
                   configured, inflight, req, resp>>

\* ---------------------------------------------------------------- tokens
\* jwt.sign({ _id, mobile, name }, JWT_SECRET, { expiresIn: days + 'd' }):
\* HS256 is deterministic, the token is a function of the payload, of the
\* issue time in whole seconds and of the lifetime.
JwtSign(user, days) ==
    [uid |-> user._id, mobile |-> user.mobile, name |-> user.name,
     iat |-> now, exp |-> now + days * DaySeconds, sig |-> "HS256"]

\* Mutant of JwtVerify: a token is not valid yet in the second it is issued.
JwtVerifyLate(tok) == tok.sig = "HS256" /\ tok.iat < now /\ now < tok.exp

\* jwt.verify(token, JWT_SECRET) does not throw
JwtVerify(tok) == tok.sig = "HS256" /\ now < tok.exp

Forged(tok) == [tok EXCEPT !.sig = "forged"]

\* Tokens the clients were given: the current one of each user, and the
\* last MaxHeld ones that a later issuance replaced in the store.
Current == {users[i].sessionToken[1] :
               i \in {j \in 1..Len(users) : users[j].sessionToken # None}}

\* What a client can put in the Authorization header: nothing, a token it
\* was given, or such a token re-signed without the secret.
Presentable == {None} \cup {Some(t) : t \in Current \cup Range(held)}
                      \cup {Some(Forged(t)) : t \in Current}

\* held after the store replaced `old` by `tok`.
Remember(old, tok) ==
    IF old = None \/ old = Some(tok) \/ Val(old) \in Range(held) THEN held
    ELSE IF Len(held) >= MaxHeld
    THEN Append(Tail(held), Val(old))
    ELSE Append(held, Val(old))

\* Mutant of IsValidCourse: a course is still valid at its expiry instant.
IsValidCourseInclusive(c) == c.isPaid /\ DateNow <= c.expiryDate

\* c.isPaid && new Date(c.expiryDate) > now
IsValidCourse(c) == c.isPaid /\ DateNow < c.expiryDate

ValidCourses(courses) == SelectSeq(courses, IsValidCourse)

\* The course objects of a response body.
Projection(c) ==
    [courseId |-> c.courseId, courseName |-> c.courseName,
     selectedSubject |-> c.subject, attemptsLeft |-> c.attemptsLeft,
     modulesCompleted |-> ModulesCompletedOf(c)]

Project(courses) == [i \in 1..Len(courses) |-> Projection(courses[i])]

\* -------------------------------------------------------- verify-payment
\* Mutant of IsPaidStatus: any status the gateway answers counts as paid.
IsPaidStatusAny(status) == status \in {"ACTIVE", "PAID"}

\* response.data.order_status === 'PAID'
IsPaidStatus(status) == status = "PAID"

\* Mutant of MarkPaid: only the first course of the order is activated.
MarkPaidFirstOnly(courses, orderId, date) ==
    LET k == FirstIndex({n \in 1..Len(courses) : courses[n].orderId = orderId})
    IN  [i \in 1..Len(courses) |->
            IF i = k THEN [courses[i] EXCEPT !.isPaid = TRUE, !.paymentDate = date]
            ELSE courses[i]]

\* user.courses.forEach(c => { if (c.orderId === orderId) { ... } })
MarkPaid(courses, orderId, date) ==
    [i \in 1..Len(courses) |->
        IF courses[i].orderId = orderId
        THEN [courses[i] EXCEPT !.isPaid = TRUE, !.paymentDate = date]
        ELSE courses[i]]

VerifyPayment(orderIdOpt, gwUp, dbOk) ==
    LET request == [NoReq EXCEPT !.op = "verify-payment",
                        !.orderId = orderIdOpt, !.dbOk = dbOk, !.gwOk = gwUp]
        fail(st) == /\ resp' = [NoResp EXCEPT !.op = "verify-payment", !.status = st]
                    /\ UNCHANGED <<users, held>>
    IN
    /\ req' = request
    /\ IF orderIdOpt = None THEN fail(400)
       ELSE LET orderId == Val(orderIdOpt) IN
         IF ~gwUp \/ orderId \notin DOMAIN gateway THEN fail(500)
         ELSE IF ~IsPaidStatus(gateway[orderId]) THEN fail(400)
         ELSE IF ~dbOk THEN fail(500)
         ELSE LET i == FindUserByOrderId(users, orderId) IN
           IF i = 0 THEN fail(400)
           ELSE LET marked == MarkPaid(users[i].courses, orderId, DateNow)
                    token  == JwtSign(users[i], VerifyTokenDays)
                IN /\ users' = [users EXCEPT ![i].courses = marked,
                                              ![i].sessionToken = Some(token)]
                   /\ held' = Remember(users[i].sessionToken, token)
                   /\ resp' = [NoResp EXCEPT !.op = "verify-payment",
                                    !.status = 200, !.success = TRUE,
                                    !.token = Some(token),
                                    !.courses = Project(ValidCourses(marked))]
    /\ UNCHANGED <<gateway, now, ticks, orders, consumed, configured, inflight>>

\* What the first save of verify-payment writes: the marked elements, each
\* addressed by the position it had in the document that findOne returned
\* ($set on courses.k.isPaid and courses.k.paymentDate).
MarkPositions(courses, ks, date) ==
    [k \in 1..Len(courses) |->
        IF k \in ks
        THEN [courses[k] EXCEPT !.isPaid = TRUE, !.paymentDate = date]
        ELSE courses[k]]

\* A verify-payment request for an order the gateway reports PAID, up to
\* `await User.findOne({ 'courses.orderId': orderId })`: the query is
\* answered with the owning user, and the handler waits while other
\* requests are served.
VerifyPaymentFind(o) ==
    /\ o \in DOMAIN gateway
    /\ IsPaidStatus(gateway[o])
    /\ FindUserByOrderId(users, o) # 0
    /\ Len(inflight) < MaxInflight
    /\ \A m \in 1..Len(inflight) : inflight[m].op # "verify-payment"
    /\ inflight' = Append(inflight,
           [op |-> "verify-payment", token |-> None,
            name |-> <<>>, mobile |-> "", email |-> <<>>,
            amount |-> 0, courseId |-> "",
            orderId |-> o, expiry |-> 0,
            found |-> Some(users[FindUserByOrderId(users, o)])])
    /\ UNCHANGED <<users, gateway, now, ticks, orders, consumed, held,
                   configured, req, resp>>

\* The n-th waiting request, a verify-payment, resumes: it marks the
\* courses of the order in the document it read and saves. The save
\* addresses array positions, so the store refuses it (VersionError,
\* answered 500) when the array was pushed onto or replaced since the
\* read; otherwise the token is signed and saved and the response lists the
\* valid courses of the document in hand.
VerifyPaymentSave(n) ==
    /\ n \in 1..Len(inflight)
    /\ inflight[n].op = "verify-payment"
    /\ LET w      == inflight[n]
           u      == Val(w.found)
           i      == FindUserById(users, u._id)
           ks     == {k \in 1..Len(u.courses) : u.courses[k].orderId = w.orderId}
           marked == MarkPaid(u.courses, w.orderId, DateNow)
           token  == JwtSign(u, VerifyTokenDays)
       IN  /\ req' = [NoReq EXCEPT !.op = "verify-payment",
                           !.orderId = Some(w.orderId)]
           /\ IF Version(users[i]) # Version(u)
              THEN /\ resp' = [NoResp EXCEPT !.op = "verify-payment", !.status = 500]
                   /\ UNCHANGED <<users, held>>
              ELSE /\ users' = [users EXCEPT
                                   ![i].courses = MarkPositions(@, ks, DateNow),
                                   ![i].sessionToken = Some(token)]
                   /\ held' = Remember(users[i].sessionToken, token)
                   /\ resp' = [NoResp EXCEPT !.op = "verify-payment",
                                    !.status = 200, !.success = TRUE,
                                    !.token = Some(token),
                                    !.courses = Project(ValidCourses(marked))]
    /\ inflight' = SubSeq(inflight, 1, n - 1) \o SubSeq(inflight, n + 1, Len(inflight))
    /\ UNCHANGED <<gateway, now, ticks, orders, consumed, configured>>

\* ----------------------------------------------------------------- login
SiblingOf(existing) ==
    IF existing.courseId = "dttp"
    THEN Some(SchemaCast([courseId |-> "fttp", courseName |-> "Soft Skills Practice",
              subject |-> "CSS", isPaid |-> TRUE, orderId |-> existing.orderId,
              paymentDate |-> existing.paymentDate,
              expiryDate |-> existing.expiryDate,
              attemptsLeft |-> existing.attemptsLeft]))
    ELSE IF existing.courseId = "fttp"
    THEN Some(SchemaCast([courseId |-> "dttp", courseName |-> "Language Skills Practice",
              subject |-> "CLS", isPaid |-> TRUE, orderId |-> existing.orderId,
              paymentDate |-> existing.paymentDate,
              expiryDate |-> existing.expiryDate,
              attemptsLeft |-> existing.attemptsLeft]))
    ELSE None

\* Mutant of AddSibling: the partner course is added whether or not the
\* existing course is paid and unexpired.
AddSiblingUnchecked(courses) ==
    IF Len(courses) = 1 /\ IsSome(SiblingOf(courses[1]))
    THEN Append(courses, Val(SiblingOf(courses[1])))
    ELSE courses

\* "CHECK & FIX": a user with exactly one course, paid and unexpired, gets
\* the partner course.
AddSibling(courses) ==
    IF Len(courses) = 1 /\ IsValidCourse(courses[1]) /\ IsSome(SiblingOf(courses[1]))
    THEN Append(courses, Val(SiblingOf(courses[1])))
    ELSE courses

\* user.attemptsLeft || 30
LegacyAttempts(user) ==
    IF IsSome(user.attemptsLeft) /\ Val(user.attemptsLeft) # 0
    THEN Val(user.attemptsLeft) ELSE InitialAttempts

\* user.expiryDate ? new Date(user.expiryDate) : new Date(Date.now() + 86400000)
LegacyExpiry(user) ==
    IF IsSome(user.expiryDate) THEN Val(user.expiryDate) ELSE AddDays(DateNow, 1)

LegacyCourses(user) ==
    << SchemaCast([courseId |-> "fttp", courseName |-> "Soft Skills Practice",
                   subject |-> "CSS", isPaid |-> TRUE, orderId |-> LegacyMarker,
                   paymentDate |-> DateNow, expiryDate |-> LegacyExpiry(user),
                   attemptsLeft |-> LegacyAttempts(user)]),
       SchemaCast([courseId |-> "dttp", courseName |-> "Language Skills Practice",
                   subject |-> "CLS", isPaid |-> TRUE, orderId |-> LegacyMarker,
                   paymentDate |-> DateNow, expiryDate |-> LegacyExpiry(user),
                   attemptsLeft |-> LegacyAttempts(user)]) >>

\* Mutant of MigrateLegacy: the courses array is not looked at.
MigrateLegacyAgain(user, courses) ==
    IF user.isPaid /\ DateNow < LegacyExpiry(user)
    THEN LegacyCourses(user)
    ELSE courses

\* "Check OLD Schema": no courses array and the legacy paid flag set.
MigrateLegacy(user, courses) ==
    IF Len(courses) = 0 /\ user.isPaid /\ DateNow < LegacyExpiry(user)
    THEN LegacyCourses(user)
    ELSE courses

\* Mutant of MigratedCourses: login purges the entitlements that are not
\* valid any more.
MigratedCoursesPurged(user) == ValidCourses(MigrateLegacy(user, AddSibling(user.courses)))

\* The courses of the user after steps 2 and 3 of the login handler.
MigratedCourses(user) == MigrateLegacy(user, AddSibling(user.courses))

\* s.includes(t)
Includes(s, t) ==
    \E k \in 0..(Len(s) - Len(t)) : SubSeq(s, k + 1, k + Len(t)) = t

\* Mutant of NamesMatch: the looser policy, one name contains the other.
NamesMatchLoosely(dbName, inputName) ==
    Includes(dbName, inputName) \/ Includes(inputName, dbName)

\* !(dbName !== inputName)
NamesMatch(dbName, inputName) == dbName = inputName

Login(name, mobile, email, dbOk) ==
    LET request == [NoReq EXCEPT !.op = "login", !.name = name,
                        !.mobile = mobile, !.email = email, !.dbOk = dbOk]
        fail(st) == /\ resp' = [NoResp EXCEPT !.op = "login", !.status = st]
                    /\ UNCHANGED <<users, held>>
    IN
    /\ req' = request
    /\ IF name = <<>> \/ mobile = "" \/ email = <<>> THEN fail(400)
       ELSE IF ~dbOk THEN fail(500)
       ELSE LET i == FindUserByMobileAndEmail(users, mobile, email) IN
         IF i = 0 THEN fail(404)
         ELSE IF ~NamesMatch(normalize(users[i].name), normalize(name)) THEN fail(401)
         ELSE LET courses == MigratedCourses(users[i])
                  valid   == ValidCourses(courses)
                  token   == JwtSign(users[i], LoginTokenDays)
              IN IF Len(valid) = 0
                 THEN /\ resp' = [NoResp EXCEPT !.op = "login", !.status = 403]
                      /\ users' = [users EXCEPT ![i].courses = courses]
                      /\ UNCHANGED held
                 ELSE /\ users' = [users EXCEPT ![i].courses = courses,
                                                 ![i].sessionToken = Some(token)]
                      /\ held' = Remember(users[i].sessionToken, token)
                      /\ resp' = [NoResp EXCEPT !.op = "login", !.status = 200,
                                       !.success = TRUE, !.token = Some(token),
                                       !.courses = Project(valid)]
    /\ UNCHANGED <<gateway, now, ticks, orders, consumed, configured, inflight>>

\* ---------------------------------------------------------- verifyToken
\* Status the middleware answers with, 0 when it calls next().
VerifyToken(tokOpt, dbOk) ==
    IF tokOpt = None THEN 401
    ELSE IF ~JwtVerify(Val(tokOpt)) THEN 400
    ELSE IF ~dbOk THEN 400
    ELSE LET i == FindUserById(users, Val(tokOpt).uid) IN
         IF i = 0 THEN 401
         ELSE IF users[i].sessionToken # tokOpt THEN 401
         ELSE 0

\* Mutant of FindPaidCourse: the paid flag is not looked at.
FindAnyCourse(courses, courseId) ==
    FirstIndex({n \in 1..Len(courses) :
        courses[n].courseId = courseId})

\* user.courses.find(c => c.courseId === courseId && c.isPaid)
FindPaidCourse(courses, courseId) ==
    FirstIndex({n \in 1..Len(courses) :
        courses[n].courseId = courseId /\ courses[n].isPaid})

\* ------------------------------------------------------------ start-exam
\* Mutant of NoAttemptsLeft: the exam is refused only below zero.
NoAttemptsLeftBelowZero(course) == course.attemptsLeft < 0

\* Mutant of NoAttemptsLeft: an expired course has no attempt left either.
NoAttemptsLeftOrExpired(course) ==
    course.attemptsLeft <= 0 \/ course.expiryDate <= DateNow

\* course.attemptsLeft <= 0
NoAttemptsLeft(course) == course.attemptsLeft <= 0

\* Mutant of Decrement: the attempt is taken from every course of the user.
DecrementAll(courses, k) ==
    [n \in 1..Len(courses) |->
        [courses[n] EXCEPT !.attemptsLeft = @ - 1]]

\* course.attemptsLeft -= 1
Decrement(courses, k) == [courses EXCEPT ![k].attemptsLeft = @ - 1]

ConsumeAttempt(tokOpt, courseId, dbOk) ==
    LET request == [NoReq EXCEPT !.op = "start-exam", !.token = tokOpt,
                        !.courseId = courseId, !.dbOk = dbOk]
        denied  == VerifyToken(tokOpt, dbOk)
        fail(st) == /\ resp' = [NoResp EXCEPT !.op = "start-exam", !.status = st,
                                         !.authorized = (denied = 0)]
                    /\ UNCHANGED <<users, consumed>>
    IN
    /\ req' = request
    /\ IF denied # 0 THEN fail(denied)
       ELSE LET i == FindUserByMobile(users, Val(tokOpt).mobile) IN
         IF i = 0 THEN fail(404)
         ELSE LET k == FindPaidCourse(users[i].courses, courseId) IN
           IF k = 0 THEN fail(404)
           ELSE IF NoAttemptsLeft(users[i].courses[k]) THEN fail(403)
           ELSE /\ consumed < MaxConsume
                /\ consumed' = consumed + 1
                /\ users' = [users EXCEPT ![i].courses = Decrement(@, k)]
                /\ resp' = [NoResp EXCEPT !.op = "start-exam", !.status = 200,
                                 !.success = TRUE, !.authorized = TRUE,
                                 !.attemptsLeft =
                                     Some(users[i].courses[k].attemptsLeft - 1)]
    /\ UNCHANGED <<gateway, now, ticks, orders, held, configured, inflight>>

\* A start-exam request whose token the middleware accepted, up to
\* `await User.findOne({ mobile })`: the query is answered, and the handler
\* waits while other requests are served.
ConsumeAttemptFind(tokOpt, courseId) ==
    /\ VerifyToken(tokOpt, TRUE) = 0
    /\ FindUserByMobile(users, Val(tokOpt).mobile) # 0
    /\ Len(inflight) < MaxInflight
    /\ inflight' = Append(inflight,
           [op |-> "start-exam", token |-> tokOpt,
            name |-> <<>>, mobile |-> Val(tokOpt).mobile, email |-> <<>>,
            amount |-> 0, courseId |-> courseId,
            orderId |-> LegacyMarker, expiry |-> 0,
            found |-> Some(users[FindUserByMobile(users, Val(tokOpt).mobile)])])
    /\ UNCHANGED <<users, gateway, now, ticks, orders, consumed, held,
                   configured, req, resp>>

\* The n-th waiting request, a start-exam, resumes: it looks for the paid
\* course in the document it read, checks the counter it read, lowers it
\* and saves. The save writes the new value of courses.k.attemptsLeft; it
\* addresses an array position, so the store refuses it (VersionError,
\* answered 500) when the array was pushed onto or replaced since the read.
ConsumeAttemptSave(n) ==
    /\ n \in 1..Len(inflight)
    /\ inflight[n].op = "start-exam"
    /\ LET w == inflight[n]
           u == Val(w.found)
           i == FindUserById(users, u._id)
           k == FindPaidCourse(u.courses, w.courseId)
           fail(st) == /\ resp' = [NoResp EXCEPT !.op = "start-exam", !.status = st,
                                            !.authorized = TRUE]
                       /\ UNCHANGED <<users, consumed>>
       IN  /\ req' = [NoReq EXCEPT !.op = "start-exam", !.token = w.token,
                           !.courseId = w.courseId]
           /\ IF k = 0 THEN fail(404)
              ELSE IF NoAttemptsLeft(u.courses[k]) THEN fail(403)
              ELSE IF Version(users[i]) # Version(u) THEN fail(500)
              ELSE LET left == Decrement(u.courses, k)[k].attemptsLeft IN
                   /\ consumed < MaxConsume
                   /\ consumed' = consumed + 1
                   /\ users' = [users EXCEPT ![i].courses[k].attemptsLeft = left]
                   /\ resp' = [NoResp EXCEPT !.op = "start-exam", !.status = 200,
                                    !.success = TRUE, !.authorized = TRUE,
                                    !.attemptsLeft = Some(left)]
    /\ inflight' = SubSeq(inflight, 1, n - 1) \o SubSeq(inflight, n + 1, Len(inflight))
    /\ UNCHANGED <<gateway, now, ticks, orders, held, configured>>

\* ------------------------------------------------------- update-progress
\* [...new Set([...currentProgress, ...completedModules])]
RECURSIVE Unique(_)
Unique(seq) ==
    IF seq = <<>> THEN <<>>
    ELSE LET init == Unique(SubSeq(seq, 1, Len(seq) - 1))
             last == seq[Len(seq)]
         IN  IF last \in Range(init) THEN init ELSE Append(init, last)


RecordProgress(tokOpt, courseId, isArray, completedModules, dbOk) ==
    LET request == [NoReq EXCEPT !.op = "update-progress", !.token = tokOpt,
                        !.courseId = courseId, !.modules = completedModules,
                        !.isArray = isArray, !.dbOk = dbOk]
        denied  == VerifyToken(tokOpt, dbOk)
        fail(st) == /\ resp' = [NoResp EXCEPT !.op = "update-progress", !.status = st,
                                         !.authorized = (denied = 0)]
                    /\ UNCHANGED users
    IN
    /\ req' = request
    /\ IF denied # 0 THEN fail(denied)
       ELSE IF courseId = "" \/ ~isArray THEN fail(400)
       ELSE LET i == FindUserByMobile(users, Val(tokOpt).mobile) IN
         IF i = 0 THEN fail(404)
         ELSE LET k == FindPaidCourse(users[i].courses, courseId) IN
           IF k = 0 THEN fail(404)
           ELSE LET course == users[i].courses[k]
                    newProgress == Unique(ModulesCompletedOf(course) \o completedModules)
                    assigned == [f \in (DOMAIN course) \cup {"modulesCompleted"} |->
                                   IF f = "modulesCompleted" THEN newProgress
                                   ELSE course[f]]
                IN /\ users' = [users EXCEPT ![i].courses[k] = SchemaCast(assigned)]
                   /\ resp' = [NoResp EXCEPT !.op = "update-progress",
                                    !.status = 200, !.success = TRUE,
                                    !.authorized = TRUE,
                                    !.modules = newProgress]
    /\ UNCHANGED <<gateway, now, ticks, orders, consumed, held,
                   configured, inflight>>

\* ------------------------------------------------------------------ Init
\* Records written by the single-course revision of the server: no courses
\* array, the paid flag, expiry and attempts counter on the user itself.
LegacyUser(paid, expiry, attempts) ==
    [_id |-> 1, name |-> NameAB, email |-> EmailAuc, mobile |-> "9999999999",
     centerName |-> "Online Student", courses |-> <<>>, sessionToken |-> None,
     isPaid |-> paid, expiryDate |-> expiry, attemptsLeft |-> attempts]

LegacyUsers ==
    { LegacyUser(TRUE, None, None),
      LegacyUser(TRUE, Some(AddDays(0, validityDays)), Some(1)),
      LegacyUser(TRUE, Some(AddDays(0, validityDays)), Some(0)),
      LegacyUser(FALSE, Some(AddDays(0, validityDays)), Some(1)) }

InitWith(stores, configs) ==
    /\ users \in stores
    /\ gateway = <<>>
    /\ now = 0
    /\ ticks = 0
    /\ orders = 0
    /\ consumed = 0
    /\ held = <<>>
    /\ configured \in configs
    /\ inflight = <<>>
    /\ req = NoReq
    /\ resp = NoResp

\* ------------------------------------------------------------- requests
Order(mobile, email, courseId, amount, fault) ==
    [mobile |-> mobile, email |-> email, courseId |-> courseId,
     amount |-> amount, fault |-> fault]

\* At most one collaborator fails during a request: the store ("db"), the
\* gateway ("gateway"), or the client sends no return URL ("nourl").
CreateOrderCall(requests) ==
    \E r \in requests, rnd \in 0..MaxRand :
        CreateOrder(NameAB, r.mobile, r.email, r.amount, r.courseId, "",
                    r.fault # "nourl", r.fault # "db", r.fault # "gateway", rnd)

CreateOrderInvalid ==
    \E bad \in { <<<<>>, "9999999999", EmailA>>, <<NameAB, "", EmailA>>,
                  <<NameAB, "9999999999", <<>>>> } :
        CreateOrder(bad[1], bad[2], bad[3], 99, "fttp", "", TRUE, TRUE, TRUE, 0)

VerifyPaymentCall(faults) ==
    \E o \in DOMAIN gateway, fault \in faults :
        VerifyPayment(Some(o), fault # "gateway", fault # "db")

VerifyPaymentUnknown ==
    \E o \in {None, Some(LegacyMarker)} : VerifyPayment(o, TRUE, TRUE)

LoginCall(requests) ==
    \E r \in requests : Login(r[1], r[2], r[3], r[4])

ConsumeAttemptCall(tokens, courseIds) ==
    \E t \in tokens, courseId \in courseIds : ConsumeAttempt(t, courseId, TRUE)

RecordProgressCall(tokens, requests) ==
    \E t \in tokens, r \in requests : RecordProgress(t, r[1], r[2], r[3], TRUE)

\* ------------------------------------------------- the purchase workload
\* One customer who writes the same e-mail in three ways orders and pays; a
\* second customer is there to be left alone.
PurchaseOrders ==
    { Order("9999999999", EmailA, c, 99, "none") :
          c \in {"soft-lang-combo", "fttp", "gk"} }
    \cup { Order("9999999999", e, "fttp", 99, "none") : e \in {EmailAuc, EmailB} }
    \cup { Order("8888888888", EmailB, "dttp", 99, "none") }
    \cup { Order("9999999999", EmailA, "fttp", 99, f) : f \in {"db", "gateway", "nourl"} }
    \cup { Order("9999999999", EmailA, c, 0, "none") : c \in {"soft-lang-combo", "fttp"} }
    \cup { Order("9999999999", EmailA, "fttp", 1, "none") }

Next ==
    \/ \E d \in {1, validityDays * DaySeconds} : TickSeconds(d)
    \/ \E o \in DOMAIN gateway : GatewayPaid(o)
    \/ CreateOrderCall(PurchaseOrders)
    \/ CreateOrderInvalid
    \/ VerifyPaymentCall({"none", "db", "gateway"})
    \/ VerifyPaymentUnknown
    \/ LoginCall({<<NameAB, "9999999999", EmailA, TRUE>>})
    \/ ConsumeAttemptCall({Some(t) : t \in Current}, {"fttp"})
    \/ RecordProgressCall({Some(t) : t \in Current}, {<<"fttp", TRUE, <<"m1">>>>})

Spec == InitWith({<<>>}, BOOLEAN) /\ [][Next]_vars

\* -------------------------------------------------- the session workload
\* One customer buys, logs in under several spellings of the name, and
\* presents every token ever issued, and forged ones.
SessionOrders ==
    { Order("9999999999", EmailA, c, 99, "none") : c \in {"fttp", "gk"} }

SessionLogins ==
    { <<n, "9999999999", EmailA, TRUE>> : n \in Names \cup {<<>>} }
    \cup { <<NameAB, "9999999999", EmailB, TRUE>>,
           <<NameAB, "9999999999", EmailA, FALSE>> }

NextSession ==
    \/ \E d \in {1, LoginTokenDays * DaySeconds} : TickSeconds(d)
    \/ \E o \in DOMAIN gateway : GatewayPaid(o)
    \/ CreateOrderCall(SessionOrders)
    \/ CreateOrderInvalid
    \/ VerifyPaymentCall({"none"})
    \/ VerifyPaymentUnknown
    \/ LoginCall(SessionLogins)
    \/ ConsumeAttemptCall(Presentable, {"fttp", "gk"})
    \/ \E t \in Current : ConsumeAttempt(Some(t), "fttp", FALSE)
    \/ RecordProgressCall(Presentable, {<<"fttp", TRUE, <<"m1", "m1">>>>})
    \/ RecordProgressCall({Some(t) : t \in Current},
           {<<"gk", TRUE, <<"m1", "m2">>>>, <<"", TRUE, <<"m1">>>>,
            <<"fttp", FALSE, <<>>>>})

SpecSession == InitWith({<<>>}, {TRUE}) /\ [][NextSession]_vars

\* --------------------------------------------------- the legacy workload
\* The store starts with one record of the single-course schema.
LegacyOrders ==
    { Order("9999999999", EmailA, c, 99, "none") : c \in {"fttp"} }

NextLegacy ==
    \/ \E d \in {1, validityDays * DaySeconds} : TickSeconds(d)
    \/ \E o \in DOMAIN gateway : GatewayPaid(o)
    \/ CreateOrderCall(LegacyOrders)
    \/ CreateOrderInvalid
    \/ VerifyPaymentCall({"none"})
    \/ VerifyPaymentUnknown
    \/ LoginCall({<<NameAB, "9999999999", EmailA, TRUE>>,
                  <<NameA, "9999999999", EmailA, TRUE>>,
                  <<NameAB, "9999999999", EmailB, TRUE>>,
                  <<<<>>, "9999999999", EmailA, TRUE>>})
    \/ ConsumeAttemptCall({Some(t) : t \in Current}, {"fttp", "dttp"})
    \/ RecordProgressCall({Some(t) : t \in Current}, {<<"fttp", TRUE, <<"m1">>>>})

SpecLegacy == InitWith({<<u>> : u \in LegacyUsers}, {TRUE}) /\ [][NextLegacy]_vars

\* ------------------------------------------------ the concurrent workload
\* The customer of a migrated record orders and pays from two browser tabs:
\* the create-order and verify-payment requests wait for the store while
\* other requests are served.
ConcOrders ==
    { Order("9999999999", EmailA, c, 99, "none") : c \in {"fttp", "gk"} }

NextConc ==
    \/ TickSeconds(1)
    \/ \E o \in DOMAIN gateway : GatewayPaid(o)
    \/ \E r \in ConcOrders, rnd \in 0..MaxRand :
           CreateOrderFind(NameAB, r.mobile, r.email, r.amount, r.courseId, rnd)
    \/ \E n \in 1..MaxInflight : CreateOrderSave(n)
    \/ VerifyPaymentCall({"none"})
    \/ \E o \in DOMAIN gateway : VerifyPaymentFind(o)
    \/ \E n \in 1..MaxInflight : VerifyPaymentSave(n)
    \/ LoginCall({<<NameAB, "9999999999", EmailA, TRUE>>})
    \/ ConsumeAttemptCall({Some(t) : t \in Current}, {"fttp"})
    \/ RecordProgressCall({Some(t) : t \in Current}, {<<"fttp", TRUE, <<"m1">>>>})

SpecConc ==
    /\ InitWith({<<LegacyUser(TRUE, Some(AddDays(0, validityDays)), Some(1))>>}, {TRUE})
    /\ [][NextConc]_vars

\* ---------------------------------------------------- the exam workload
\* The customer of a migrated record with one or two attempts starts exams
\* from two browser tabs, and orders one more course meanwhile: the
\* start-exam requests wait for the store while other requests are served.
ExamOrders ==
    { Order("9999999999", EmailA, "gk", 99, "none") }

NextExam ==
    \/ TickSeconds(1)
    \/ CreateOrderCall(ExamOrders)
    \/ LoginCall({<<NameAB, "9999999999", EmailA, TRUE>>})
    \/ ConsumeAttemptCall({Some(t) : t \in Current}, {"fttp", "dttp"})
    \/ \E t \in Current, c \in {"fttp", "dttp"} : ConsumeAttemptFind(Some(t), c)
    \/ \E n \in 1..MaxInflight : ConsumeAttemptSave(n)

SpecExam ==
    /\ InitWith({<<LegacyUser(TRUE, Some(AddDays(0, validityDays)), Some(a))>> :
                    a \in 1..2}, {TRUE})
    /\ [][NextExam]_vars

\* =================================================================== claims
\* A step of the handler `op`: it answers a request (no request starts to
\* wait in it) while the clock and the gateway's view of the existing
\* orders stand still.
StepOf(op) ==
    /\ req'.op = op
    /\ now' = now
    /\ \A o \in DOMAIN gateway : gateway'[o] = gateway[o]
    /\ Len(inflight') <= Len(inflight)

HeldIndexes(courses, courseId) ==
    {k \in 1..Len(courses) : courses[k].courseId = courseId}

\* C1: after a create-order call that passes validation with the store
\* available, the user found by the mobile of the request holds exactly one
\* entitlement per resolved course, unpaid and carrying the order id that
\* the call generated.
C1_OrderEntitlements ==
    (req.op = "create-order" /\ resp.status # 400 /\ req.dbOk) =>
        LET i     == FindUserByMobile(users, req.mobile)
            items == CoursesToProcess(req.courseId)
        IN  /\ i # 0
            /\ \A n \in 1..Len(items) :
                  LET ks == HeldIndexes(users[i].courses, items[n].id)
                  IN  /\ Cardinality(ks) = 1
                      /\ \A k \in ks :
                            /\ ~users[i].courses[k].isPaid
                            /\ users[i].courses[k].orderId = Val(resp.orderId)

\* What a successful verify-payment step does to the store: the courses of
\* the owning user that carry the order id become paid, stamped with the
\* payment date; nothing else changes but that user's session token.
VerifyEffect(i, o) ==
    /\ Len(users') = Len(users)
    /\ \A j \in 1..Len(users) : j # i => users'[j] = users[j]
    /\ users'[i] = [users[i] EXCEPT !.courses = users'[i].courses,
                                    !.sessionToken = resp'.token]
    /\ Len(users'[i].courses) = Len(users[i].courses)
    /\ \A k \in 1..Len(users[i].courses) :
          IF users[i].courses[k].orderId = o
          THEN users'[i].courses[k] =
                   [users[i].courses[k] EXCEPT !.isPaid = TRUE, !.paymentDate = now]
          ELSE users'[i].courses[k] = users[i].courses[k]

\* The courses of order o of user i (after the step) that the response lists.
Returned(i, o, ks) ==
    \A k \in ks :
        users'[i].courses[k].orderId = o =>
            \E n \in 1..Len(resp'.courses) :
                /\ resp'.courses[n].courseId = users'[i].courses[k].courseId
                /\ resp'.courses[n].selectedSubject = users'[i].courses[k].subject
                /\ resp'.courses[n].attemptsLeft = users'[i].courses[k].attemptsLeft

VerifyPaidStep ==
    /\ StepOf("verify-payment")
    /\ req'.orderId # None /\ req'.dbOk /\ req'.gwOk
    /\ Val(req'.orderId) \in DOMAIN gateway
    /\ gateway[Val(req'.orderId)] = "PAID"
    /\ FindUserByOrderId(users, Val(req'.orderId)) # 0

C3_VerifyNoMutation ==
    [][(/\ StepOf("verify-payment")
        /\ \/ req'.orderId = None
           \/ Val(req'.orderId) \notin DOMAIN gateway
           \/ gateway[Val(req'.orderId)] # "PAID"
           \/ FindUserByOrderId(users, Val(req'.orderId)) = 0)
       => (~resp'.success /\ resp'.token = None /\ users' = users)]_vars

\* verify-payment was asked about a paid order that no user holds.
C3_Witness ==
    /\ req.op = "verify-payment" /\ req.orderId # None
    /\ Val(req.orderId) \in DOMAIN gateway
    /\ gateway[Val(req.orderId)] = "PAID"
    /\ FindUserByOrderId(users, Val(req.orderId)) = 0
    /\ resp.status = 400

\* A token issued by login (lifetime of one day).
IsLoginToken(t) == t.exp - t.iat = LoginTokenDays * DaySeconds

\* C4: after a second successful login for the same mobile, the token the
\* first login issued is no longer accepted by the token check, however
\* close in time the two logins are.
C4_SecondLoginInvalidates ==
    [][\A i \in 1..Len(users) :
         (/\ StepOf("login") /\ resp'.status = 200
          /\ users[i].mobile = req'.mobile
          /\ users[i].sessionToken # None)
         => \A t \in {Val(users[i].sessionToken)} :
                IsLoginToken(t) => (VerifyToken(Some(t), TRUE))' # 0]_vars

\* The four conditions under which a presented token is to be accepted.
TokenAcceptable(tokOpt) ==
    /\ tokOpt # None
    /\ Val(tokOpt).sig = "HS256"
    /\ now < Val(tokOpt).exp
    /\ \E i \in 1..Len(users) :
          /\ users[i]._id = Val(tokOpt).uid
          /\ users[i].sessionToken = tokOpt

\* C5: a protected operation runs only for a token that is correctly
\* signed, unexpired, of an existing user and equal to the stored one; in
\* every other case the request is answered as an authentication error
\* (401) and the operation is not executed.
C5_TokenCheck ==
    [][((StepOf("start-exam") \/ StepOf("update-progress")) /\ req'.dbOk)
       => IF TokenAcceptable(req'.token)
          THEN resp'.authorized
          ELSE /\ ~resp'.authorized
               /\ resp'.status = 401
               /\ users' = users]_vars

AttemptsNonNegative ==
    \A i \in 1..Len(users) : \A k \in 1..Len(users[i].courses) :
        users[i].courses[k].attemptsLeft >= 0

\* The authorized start-exam request in flight finds a paid course of the
\* token's user with no attempt left.
ConsumeAtZero(i, k) ==
    /\ StepOf("start-exam") /\ resp'.authorized
    /\ req'.token # None /\ users[i].mobile = Val(req'.token).mobile
    /\ k = FindPaidCourse(users[i].courses, req'.courseId)
    /\ k # 0
    /\ users[i].courses[k].attemptsLeft = 0

\* C6: the attempts of an entitlement never go below zero, and start-exam
\* on an entitlement with zero attempts is refused (403) and leaves the
\* counter at zero.
C6_AttemptsFloor ==
    /\ []AttemptsNonNegative
    /\ [][\A i \in 1..Len(users) : \A k \in 1..Len(users[i].courses) :
            ConsumeAtZero(i, k) =>
                /\ resp'.status = 403
                /\ users' = users]_vars

\* start-exam was refused on a paid course that has no attempt left.
C6_Witness ==
    /\ req.op = "start-exam" /\ resp.status = 403 /\ resp.authorized
    /\ \E i \in 1..Len(users) :
          /\ users[i].mobile = Val(req.token).mobile
          /\ LET k == FindPaidCourse(users[i].courses, req.courseId)
             IN  k # 0 /\ users[i].courses[k].attemptsLeft = 0

\* C7: create-order for a course the user found by the mobile already
\* holds adds no entitlement for it; the held one gets the new order id,
\* paid = false, the payment date of the call and the expiry now + 20
\* days, and keeps its attempts.
C7_RepurchaseInPlace ==
    [][\A i \in 1..Len(users) : \A k \in 1..Len(users[i].courses) :
         (/\ StepOf("create-order") /\ resp'.status # 400 /\ req'.dbOk
          /\ users[i].mobile = req'.mobile
          /\ \E n \in 1..Len(CoursesToProcess(req'.courseId)) :
                CoursesToProcess(req'.courseId)[n].id = users[i].courses[k].courseId)
         => /\ HeldIndexes(users'[i].courses, users[i].courses[k].courseId)
                   = HeldIndexes(users[i].courses, users[i].courses[k].courseId)
            /\ users'[i].courses[k] =
                   [users[i].courses[k] EXCEPT
                       !.orderId = Val(resp'.orderId),
                       !.isPaid = FALSE,
                       !.paymentDate = now,
                       !.expiryDate = now + validityDays * DaySeconds]]_vars

\* C8: in every reachable state, whatever the interleaving of the
\* requests, a user holds at most one entitlement per course id.
C8_OneEntitlementPerCourse ==
    \A i \in 1..Len(users) : \A k, l \in 1..Len(users[i].courses) :
        users[i].courses[k].courseId = users[i].courses[l].courseId => k = l

\* Entitlement k of user i is paid after the step and was not before it.
BecomesPaid(i, k) ==
    /\ i \in 1..Len(users') /\ k \in 1..Len(users'[i].courses)
    /\ users'[i].courses[k].isPaid
    /\ \/ i > Len(users)
       \/ k > Len(users[i].courses)
       \/ ~users[i].courses[k].isPaid

\* C9: an entitlement becomes paid only in a verify-payment step for the
\* order id it carries, which the gateway reports PAID; no other step
\* makes or creates a paid entitlement.
C9_PaidOnlyByVerify ==
    [][\A i \in 1..Len(users') : \A k \in 1..Len(users'[i].courses) :
         BecomesPaid(i, k) =>
            /\ StepOf("verify-payment")
            /\ req'.orderId = Some(users'[i].courses[k].orderId)
            /\ Val(req'.orderId) \in DOMAIN gateway
            /\ gateway[Val(req'.orderId)] = "PAID"]_vars

\* The token of the request in flight is accepted and belongs to user i.
AuthorizedAs(i) ==
    /\ resp'.authorized
    /\ req'.token # None /\ users[i].mobile = Val(req'.token).mobile

\* C10: an unpaid entitlement, whatever its expiry, is not among the
\* courses a login returns, keeps its attempts and its completed modules
\* through start-exam and update-progress, and both answer 404 when asked
\* for its course.
C10_UnpaidUnusable ==
    [][\A i \in 1..Len(users) : \A k \in 1..Len(users[i].courses) :
         ~users[i].courses[k].isPaid =>
            /\ (StepOf("login") /\ resp'.status = 200
                    /\ users[i].mobile = req'.mobile)
               => \A n \in 1..Len(resp'.courses) :
                      resp'.courses[n].courseId # users[i].courses[k].courseId
            /\ (StepOf("start-exam") \/ StepOf("update-progress"))
               => /\ users'[i].courses[k].attemptsLeft
                         = users[i].courses[k].attemptsLeft
                  /\ ModulesCompletedOf(users'[i].courses[k])
                         = ModulesCompletedOf(users[i].courses[k])
            /\ (/\ StepOf("start-exam") \/ StepOf("update-progress")
                /\ AuthorizedAs(i)
                /\ req'.isArray
                /\ req'.courseId = users[i].courses[k].courseId)
               => resp'.status = 404 /\ users' = users]_vars

\* An authorized start-exam asked for a course its user holds unpaid, and
\* was answered 404.
C10_Witness ==
    /\ req.op = "start-exam" /\ resp.authorized /\ resp.status = 404
    /\ \E i \in 1..Len(users) : \E k \in 1..Len(users[i].courses) :
          /\ users[i].mobile = Val(req.token).mobile
          /\ users[i].courses[k].courseId = req.courseId
          /\ ~users[i].courses[k].isPaid

\* The login request in flight finds user i (store up, fields present).
LoginFinds(i) ==
    /\ StepOf("login") /\ req'.dbOk
    /\ req'.name # <<>> /\ req'.mobile # "" /\ req'.email # <<>>
    /\ i = FindUserByMobileAndEmail(users, req'.mobile, req'.email)
    /\ i # 0

\* C11: login passes the name check exactly when the lower-cased,
\* whitespace-collapsed, trimmed input name equals the stored name
\* normalized the same way; a name that is only a part of the stored name,
\* or contains it, is answered 401; on a mismatch no token is issued and
\* the store (the session token included) is unchanged.
C11_StrictNameCheck ==
    [][\A i \in 1..Len(users) :
         LoginFinds(i) =>
            IF normalize(req'.name) = normalize(users[i].name)
            THEN resp'.status \in {200, 403}
            ELSE /\ resp'.status = 401
                 /\ resp'.token = None
                 /\ users' = users]_vars

\* A login under a name that is a proper part of the stored name, or
\* contains it, was refused while the user had a session token.
C11_Witness ==
    /\ req.op = "login" /\ resp.status = 401
    /\ \E i \in 1..Len(users) :
          /\ users[i].mobile = req.mobile
          /\ users[i].sessionToken # None
          /\ normalize(req.name) # normalize(users[i].name)
          /\ \/ Includes(normalize(users[i].name), normalize(req.name))
             \/ Includes(normalize(req.name), normalize(users[i].name))

\* Positions of the courses that are paid and expire after `date`.
PaidUnexpired(courses, date) ==
    {k \in 1..Len(courses) : courses[k].isPaid /\ courses[k].expiryDate > date}

\* The response lists exactly the courses at positions ks, in store order.
ListsExactly(listed, courses, ks) ==
    /\ Len(listed) = Cardinality(ks)
    /\ \A n \in 1..Len(listed) :
          \E k \in ks :
              /\ Cardinality({l \in ks : l < k}) = n - 1
              /\ listed[n].courseId = courses[k].courseId
              /\ listed[n].courseName = courses[k].courseName
              /\ listed[n].selectedSubject = courses[k].subject
              /\ listed[n].attemptsLeft = courses[k].attemptsLeft

\* C12: a login that passes the name check returns exactly the user's
\* entitlements that are paid and expire strictly after the current time,
\* as the record stands after the migration; when there is none it is
\* answered 403, issues no token and leaves the stored token as it was.
C12_LoginReturnsValid ==
    [][\A i \in 1..Len(users) :
         (LoginFinds(i) /\ normalize(req'.name) = normalize(users[i].name)) =>
            LET ks == PaidUnexpired(users'[i].courses, now) IN
            IF ks = {}
            THEN /\ resp'.status = 403
                 /\ resp'.token = None
                 /\ resp'.courses = <<>>
                 /\ users'[i].sessionToken = users[i].sessionToken
            ELSE /\ resp'.status = 200
                 /\ ListsExactly(resp'.courses, users'[i].courses, ks)]_vars

\* A login was refused with 403 at the very instant the user's paid
\* courses expire, the token of an earlier login still stored.
C12_Witness ==
    /\ req.op = "login" /\ resp.status = 403
    /\ \E i \in 1..Len(users) :
          /\ users[i].mobile = req.mobile
          /\ users[i].sessionToken # None
          /\ \E k \in 1..Len(users[i].courses) :
                users[i].courses[k].isPaid /\ users[i].courses[k].expiryDate = now

\* The courses are the two catalog courses, one entitlement each.
BothCatalogCourses(courses) ==
    /\ Len(courses) = 2
    /\ {courses[1].courseId, courses[2].courseId} = {"fttp", "dttp"}

\* C13: the migration that login runs is idempotent. A login that changes
\* the courses of a record leaves it with the two catalog courses; a login
\* that follows a login of the same user changes no course; and a user who
\* holds both fttp and dttp keeps the entitlements unchanged.
C13_MigrationIdempotent ==
    [][\A i \in 1..Len(users) :
         (LoginFinds(i) /\ normalize(req'.name) = normalize(users[i].name)) =>
            /\ users'[i].courses # users[i].courses
                  => BothCatalogCourses(users'[i].courses)
            /\ (req.op = "login" /\ req.mobile = req'.mobile
                    /\ resp.status \in {200, 403})
                  => users'[i].courses = users[i].courses
            /\ (\E k \in 1..Len(users[i].courses) : users[i].courses[k].courseId = "fttp")
                  /\ (\E k \in 1..Len(users[i].courses) : users[i].courses[k].courseId = "dttp")
                  => users'[i].courses = users[i].courses]_vars

\* A migrated record whose user has just logged in again, later than the
\* login that migrated it.
C13_Witness ==
    /\ req.op = "login" /\ resp.status = 200
    /\ \E i \in 1..Len(users) :
          /\ users[i].mobile = req.mobile
          /\ BothCatalogCourses(users[i].courses)
          /\ users[i].courses[1].orderId = LegacyMarker
          /\ users[i].courses[1].paymentDate < now
          /\ users[i].sessionToken # None
          /\ Val(users[i].sessionToken).iat = now
          /\ IsLoginToken(Val(users[i].sessionToken))

\* C14: a successful update-progress stores and returns the set union of
\* the completed modules the entitlement had and the submitted ones, each
\* module once.
C14_ProgressUnion ==
    [][\A i \in 1..Len(users) : \A k \in 1..Len(users[i].courses) :
         (/\ StepOf("update-progress") /\ resp'.status = 200
          /\ AuthorizedAs(i)
          /\ k = FindPaidCourse(users[i].courses, req'.courseId))
         => LET union == Range(ModulesCompletedOf(users[i].courses[k]))
                            \cup Range(req'.modules)
            IN  /\ Range(resp'.modules) = union
                /\ Len(resp'.modules) = Cardinality(union)
                /\ Range(ModulesCompletedOf(users'[i].courses[k])) = union]_vars

\* Order o was reconciled: an entitlement carrying it is already paid.
Reconciled(o) ==
    \E i \in 1..Len(users) : \E k \in 1..Len(users[i].courses) :
        users[i].courses[k].orderId = o /\ users[i].courses[k].isPaid

\* C15: verify-payment for an order that was already reconciled answers
\* without success, issues no token and leaves every stored session token
\* as it was.
C15_NoTokenOnReconciledOrder ==
    [][(/\ StepOf("verify-payment")
        /\ req'.orderId # None
        /\ Reconciled(Val(req'.orderId)))
       => /\ ~resp'.success
          /\ resp'.token = None
          /\ \A i \in 1..Len(users) :
                users'[i].sessionToken = users[i].sessionToken]_vars

\* C16: every stored session token, issued by login or by verify-payment,
\* binds the user's id, mobile and name and expires 24 hours after it was
\* issued; the token check rejects it once more than 24 hours have passed.
C16_TokenLifetime ==
    \A i \in 1..Len(users) :
        users[i].sessionToken # None =>
            LET t == Val(users[i].sessionToken) IN
            /\ t.uid = users[i]._id
            /\ t.mobile = users[i].mobile
            /\ t.name = users[i].name
            /\ t.exp = t.iat + 24 * 3600
            /\ now > t.iat + 24 * 3600 => VerifyToken(Some(t), TRUE) # 0

\* C17: create-order finds the existing user by the mobile alone: for a
\* mobile that has a user, a valid call with any e-mail (store available)
\* merges every resolved course into that user, under the new order id,
\* and the store gets no other user.
C17_MergeByMobile ==
    [][\A i \in 1..Len(users) :
         (/\ StepOf("create-order") /\ resp'.status # 400 /\ req'.dbOk
          /\ users[i].mobile = req'.mobile)
         => /\ Len(users') = Len(users)
            /\ \A n \in 1..Len(CoursesToProcess(req'.courseId)) :
                  \E k \in 1..Len(users'[i].courses) :
                      /\ users'[i].courses[k].courseId
                            = CoursesToProcess(req'.courseId)[n].id
                      /\ users'[i].courses[k].orderId = Val(resp'.orderId)]_vars

\* C18: a create-order whose save fails still places the order at the
\* gateway and answers with the gateway's response; a create-order whose
\* gateway request fails answers 500 with the gateway's error payload;
\* success is reported only for an order the gateway holds.
C18_SaveFailureNotFatal ==
    [][(StepOf("create-order") /\ resp'.status # 400) =>
         LET o == Val(resp'.orderId) IN
         /\ (~req'.dbOk /\ configured /\ o \notin DOMAIN gateway)
               => /\ users' = users
                  /\ resp'.status = 200 /\ resp'.success
                  /\ o \in DOMAIN gateway' /\ gateway'[o] = "ACTIVE"
         /\ (~req'.gwOk /\ configured)
               => /\ resp'.status = 500 /\ ~resp'.success
                  /\ resp'.details = Some(GatewayErrorPayload)
                  /\ gateway' = gateway
         /\ resp'.success
               => o \notin DOMAIN gateway /\ o \in DOMAIN gateway']_vars

\* A create-order succeeded at the gateway although the store was down.
C18_Witness ==
    /\ req.op = "create-order" /\ ~req.dbOk
    /\ resp.status = 200 /\ resp.success
    /\ Val(resp.orderId) \in DOMAIN gateway
    /\ FindUserByOrderId(users, Val(resp.orderId)) = 0

\* C19: a create-order with an empty name, mobile or e-mail, or with a
\* zero amount from the client, is answered 400 whatever the course
\* selection, changes no user record and places no order at the gateway.
C19_ValidationRejects ==
    [][(/\ StepOf("create-order")
        /\ \/ req'.name = <<>> \/ req'.mobile = "" \/ req'.email = <<>>
           \/ req'.amount = 0)
       => /\ resp'.status = 400
          /\ users' = users
          /\ gateway' = gateway]_vars

\* C20: the amount of the gateway order depends on the course selection
\* alone: two successful create-order calls for the same selection place
\* orders of the same amount, whatever amounts the clients sent.
C20_ServerSideAmount ==
    [][(/\ StepOf("create-order") /\ resp'.success
        /\ req.op = "create-order" /\ resp.success
        /\ req.courseId = req'.courseId)
       => resp'.amount = resp.amount]_vars

\* Every user of the store is still there after the step, under the same
\* id, and holds every course id it held before.
NothingRemoved ==
    /\ Len(users') >= Len(users)
    /\ \A i \in 1..Len(users) :
          /\ users'[i]._id = users[i]._id
          /\ \A k \in 1..Len(users[i].courses) :
                \E l \in 1..Len(users'[i].courses) :
                    users'[i].courses[l].courseId = users[i].courses[k].courseId

\* Course k of user i is paid and its expiry has passed.
ExpiredPaid(us, i, k) ==
    us[i].courses[k].isPaid /\ us[i].courses[k].expiryDate <= now

\* C21: no step removes a user or an entitlement: the users stay, and the
\* course ids each one holds only grow; an entitlement that is paid and
\* expired stays in the record and is not among the courses that a login
\* or a verify-payment returns to its user.
C21_NothingDeleted ==
    [][/\ NothingRemoved
       /\ \A i \in 1..Len(users) : \A k \in 1..Len(users[i].courses) :
             (/\ StepOf("login") \/ StepOf("verify-payment")
              /\ resp'.token # None
              /\ Val(resp'.token).uid = users[i]._id
              /\ ExpiredPaid(users, i, k))
             => /\ ExpiredPaid(users', i, k)
                /\ users'[i].courses[k].courseId = users[i].courses[k].courseId
                /\ \A n \in 1..Len(resp'.courses) :
                      resp'.courses[n].courseId # users[i].courses[k].courseId]_vars

\* A login succeeded for a user who keeps a paid entitlement past its
\* expiry; the response lists another course and not that one.
C21_Witness ==
    /\ req.op = "login" /\ resp.status = 200
    /\ \E i \in 1..Len(users) : \E k \in 1..Len(users[i].courses) :
          /\ users[i].sessionToken = resp.token
          /\ ExpiredPaid(users, i, k)
          /\ \A n \in 1..Len(resp.courses) :
                resp.courses[n].courseId # users[i].courses[k].courseId

\* Entitlement k of user i exists after the step and did not before it.
IsNewEntitlement(i, k) ==
    /\ i \in 1..Len(users') /\ k \in 1..Len(users'[i].courses)
    /\ i > Len(users) \/ k > Len(users[i].courses)

\* The attempts of the entitlements that exist before the step do not
\* grow; they change in a start-exam step only, and create-order,
\* verify-payment and login keep them, and the completed modules, as they
\* are.
AttemptsKept ==
    \A i \in 1..Len(users) : \A k \in 1..Len(users[i].courses) :
        /\ users'[i].courses[k].attemptsLeft <= users[i].courses[k].attemptsLeft
        /\ users'[i].courses[k].attemptsLeft # users[i].courses[k].attemptsLeft
              => StepOf("start-exam")
        /\ (StepOf("create-order") \/ StepOf("verify-payment") \/ StepOf("login"))
              => /\ users'[i].courses[k].attemptsLeft
                        = users[i].courses[k].attemptsLeft
                 /\ ModulesCompletedOf(users'[i].courses[k])
                        = ModulesCompletedOf(users[i].courses[k])

StoredModules(us, i, k) == Range(ModulesCompletedOf(us[i].courses[k]))

Resumes(n) ==
    /\ n \in 1..Len(inflight)
    /\ inflight' = SubSeq(inflight, 1, n - 1) \o SubSeq(inflight, n + 1, Len(inflight))

\* C24: the mutations of one user's record are serialized: when a
\* create-order and a verify-payment of the same user overlap, the record
\* after each of them shows both updates. A verify-payment of a paid order
\* that the user holds succeeds and leaves the entitlements of the order
\* paid, whatever create-order did since the handler read the record; a
\* create-order that read the user's record, only verify-payment having
\* written to it since, leaves the user with every resolved course under
\* the new order id, and every create-order leaves the entitlements of the
\* other courses as they were.
C24_BothUpdatesReflected ==
    [][/\ VerifyPaidStep =>
             LET o == Val(req'.orderId)
                 i == FindUserByOrderId(users, o)
             IN  /\ resp'.status = 200
                 /\ \A k \in 1..Len(users[i].courses) :
                       users[i].courses[k].orderId = o
                           => users'[i].courses[k].isPaid
       /\ \A i \in 1..Len(users) :
             (/\ StepOf("create-order") /\ resp'.status # 400 /\ req'.dbOk
              /\ users[i].mobile = req'.mobile)
             => LET items == CoursesToProcess(req'.courseId) IN
                /\ \A n \in 1..Len(inflight) :
                      (/\ Resumes(n)
                       /\ inflight[n].found # None
                       /\ Val(inflight[n].found)._id = users[i]._id
                       /\ Version(Val(inflight[n].found)) = Version(users[i]))
                      => \A m \in 1..Len(items) :
                            \E k \in 1..Len(users'[i].courses) :
                                /\ users'[i].courses[k].courseId = items[m].id
                                /\ users'[i].courses[k].orderId = Val(resp'.orderId)
                /\ \A k \in 1..Len(users[i].courses) :
                      (\A m \in 1..Len(items) :
                           items[m].id # users[i].courses[k].courseId)
                          => users'[i].courses[k] = users[i].courses[k]]_vars

\* Order ids that an entitlement of the store carries.
HeldOrderIds ==
    UNION {{users[i].courses[k].orderId : k \in 1..Len(users[i].courses)} :
              i \in 1..Len(users)}

\* C25: the order id that a create-order call generates is fresh: no
\* entitlement of the store carries it already, and no other create-order
\* call generated it (the gateway holds no order under it), even when the
\* calls are made at the same instant.
C25_OrderIdFresh ==
    [][(StepOf("create-order") /\ resp'.status # 400) =>
          /\ Val(resp'.orderId) \notin HeldOrderIds
          /\ Val(resp'.orderId) \notin DOMAIN gateway]_vars

\* The outcome category that a response status stands for.
Category(status) ==
    CASE status = 200 -> "Ok"
      [] status = 400 -> "ValidationError"
      [] status = 401 -> "AuthError"
      [] status = 403 -> "AccessError"
      [] status = 404 -> "NotFound"
      [] OTHER        -> "GatewayOrStorageError"

\* C26: the outcome category of a failure tells the client what failed.
\* verify-payment for a paid order that no user holds is answered NotFound
\* and for an order that is not paid yet with another category; a token
\* that is forged, expired, superseded or missing is answered AuthError,
\* and a request with an accepted token and malformed fields
\* ValidationError.
C26_ErrorCategories ==
    [][/\ (/\ StepOf("verify-payment")
           /\ req'.orderId # None /\ req'.dbOk /\ req'.gwOk
           /\ Val(req'.orderId) \in DOMAIN gateway)
          => LET o == Val(req'.orderId) IN
             /\ gateway[o] # "PAID"
                   => Category(resp'.status) \notin {"Ok", "NotFound"}
             /\ (gateway[o] = "PAID" /\ FindUserByOrderId(users, o) = 0)
                   => Category(resp'.status) = "NotFound"
       /\ ((StepOf("start-exam") \/ StepOf("update-progress")) /\ req'.dbOk)
          => /\ ~TokenAcceptable(req'.token)
                   => Category(resp'.status) = "AuthError"
             /\ (/\ TokenAcceptable(req'.token)
                 /\ StepOf("update-progress")
                 /\ req'.courseId = "" \/ ~req'.isArray)
                   => Category(resp'.status) = "ValidationError"]_vars

\* C27: login adds the sibling catalog course only to a user whose single
\* entitlement is paid and unexpired and whose legacy paid flag is set with
\* a legacy expiry in the future; a user without the legacy paid flag who
\* holds one catalog course holds exactly that one after login. An added
\* sibling carries the order id and the expiry of the existing entitlement.
C27_SiblingOnlyForLegacy ==
    [][\A i \in 1..Len(users) :
         (LoginFinds(i) /\ Len(users[i].courses) = 1) =>
            /\ ~users[i].isPaid => users'[i].courses = users[i].courses
            /\ users'[i].courses # users[i].courses =>
                  /\ users[i].courses[1].isPaid
                  /\ now < users[i].courses[1].expiryDate
                  /\ users[i].isPaid
                  /\ now < LegacyExpiry(users[i])
                  /\ BothCatalogCourses(users'[i].courses)
                  /\ users'[i].courses[1] = users[i].courses[1]
                  /\ users'[i].courses[2].orderId = users[i].courses[1].orderId
                  /\ users'[i].courses[2].expiryDate
                        = users[i].courses[1].expiryDate]_vars

\* C28: when login migrates a user without entitlements from the legacy
\* fields, both synthesized entitlements get the legacy counter as their
\* attempts whenever the record has one, a counter of 0 included, and 30
\* only when it has none; both carry the migration marker as order id, and
\* no create-order call generates the marker.
C28_LegacyAttempts ==
    [][/\ \A i \in 1..Len(users) :
             (LoginFinds(i) /\ users[i].courses = <<>>
                  /\ users'[i].courses # <<>>)
             => /\ BothCatalogCourses(users'[i].courses)
                /\ \A k \in 1..Len(users'[i].courses) :
                      /\ users'[i].courses[k].orderId = LegacyMarker
                      /\ users'[i].courses[k].attemptsLeft =
                            IF users[i].attemptsLeft # None
                            THEN Val(users[i].attemptsLeft)
                            ELSE InitialAttempts
       /\ (StepOf("create-order") /\ resp'.orderId # None)
             => Val(resp'.orderId) # LegacyMarker]_vars

\* C29: a successful start-exam is served for the user of the token and
\* the first paid entitlement of the requested course: it lowers the
\* attempts of that entitlement by exactly 1 and returns the new value;
\* every other field of the entitlement, every other entitlement of the
\* user, the session token and every other user stay as they were.
C29_ConsumeFrame ==
    [][(StepOf("start-exam") /\ resp'.status = 200) =>
          \E i \in 1..Len(users) : \E k \in 1..Len(users[i].courses) :
              /\ AuthorizedAs(i)
              /\ users[i].sessionToken = req'.token
              /\ k = FindPaidCourse(users[i].courses, req'.courseId)
              /\ users[i].courses[k].isPaid
              /\ users[i].courses[k].courseId = req'.courseId
              /\ users' = [users EXCEPT ![i].courses[k].attemptsLeft = @ - 1]
              /\ resp'.attemptsLeft = Some(users[i].courses[k].attemptsLeft - 1)
              /\ resp'.attemptsLeft = Some(users'[i].courses[k].attemptsLeft)]_vars

\* An attempt was taken from one of the two paid courses of a user while
\* the store holds another user: that course has 29 attempts, the other 30.
C29_Witness ==
    /\ req.op = "start-exam" /\ resp.status = 200
    /\ resp.attemptsLeft = Some(InitialAttempts - 1)
    /\ Len(users) = 2
    /\ \E i \in 1..Len(users) : \E k, l \in 1..Len(users[i].courses) :
          /\ users[i].sessionToken = req.token
          /\ users[i].courses[k].courseId = req.courseId
          /\ users[i].courses[k].attemptsLeft = InitialAttempts - 1
          /\ l # k
          /\ users[i].courses[l].isPaid
          /\ users[i].courses[l].attemptsLeft = InitialAttempts

\* C30: start-exam does not look at the expiry: presented with a token
\* that the token check accepts, for a course whose first paid entitlement
\* has expired and has attempts left, it succeeds and takes one attempt.
C30_NoExpiryCheck ==
    [][\A i \in 1..Len(users) : \A k \in 1..Len(users[i].courses) :
         (/\ StepOf("start-exam") /\ req'.dbOk
          /\ TokenAcceptable(req'.token)
          /\ users[i]._id = Val(req'.token).uid
          /\ users[i].courses[k].courseId = req'.courseId
          /\ users[i].courses[k].isPaid
          /\ \A l \in 1..(k - 1) :
                ~(users[i].courses[l].courseId = req'.courseId
                      /\ users[i].courses[l].isPaid)
          /\ users[i].courses[k].expiryDate <= now
          /\ users[i].courses[k].attemptsLeft > 0)
         => /\ resp'.status = 200 /\ resp'.success
            /\ users'[i].courses[k].attemptsLeft
                  = users[i].courses[k].attemptsLeft - 1
            /\ resp'.attemptsLeft = Some(users'[i].courses[k].attemptsLeft)]_vars

\* An attempt was taken from a paid course after its expiry: the token of
\* the request was issued when the course had expired already.
C30_Witness ==
    /\ req.op = "start-exam" /\ resp.status = 200
    /\ \E i \in 1..Len(users) : \E k \in 1..Len(users[i].courses) :
          /\ users[i].sessionToken = req.token
          /\ Val(req.token).iat >= users[i].courses[k].expiryDate
          /\ users[i].courses[k].courseId = req.courseId
          /\ users[i].courses[k].isPaid
          /\ users[i].courses[k].expiryDate <= now
          /\ resp.attemptsLeft = Some(users[i].courses[k].attemptsLeft)

\* C31: the merged set that a successful update-progress returned for an
\* entitlement is persisted: the next successful login of the user, no
\* other request served in between, lists the course with the same
\* completed modules.
C31_ProgressPersisted ==
    [][(/\ req.op = "update-progress" /\ resp.status = 200
        /\ StepOf("login") /\ resp'.status = 200
        /\ req.token # None /\ Val(req.token).mobile = req'.mobile)
       => \A n \in 1..Len(resp'.courses) :
              resp'.courses[n].courseId = req.courseId
                  => Range(resp'.courses[n].modulesCompleted)
                         = Range(resp.modules)]_vars

\* What a course selection is to resolve to: course id, display name and
\* subject of each entitlement (the combo, and an identifier outside the
\* catalog).
ResolvesTo(courseId) ==
    IF courseId = "soft-lang-combo"
    THEN {<<"fttp", "Soft Skills Practice", "CSS">>,
          <<"dttp", "Language Skills Practice", "CLS">>}
    ELSE {<<courseId, courseId, "OTHER">>}

\* The entitlements (user, position) that the step creates or changes.
Touched ==
    UNION {{<<i, k>> : k \in {l \in 1..Len(users'[i].courses) :
                                 \/ IsNewEntitlement(i, l)
                                 \/ users'[i].courses[l] # users[i].courses[l]}} :
              i \in 1..Len(users')}

C33_PlacedOrderIsHeld ==
    [][(/\ StepOf("create-order") /\ req'.dbOk
        /\ resp'.status = 200
        /\ Val(resp'.orderId) \in DOMAIN gateway')
       => FindUserByOrderId(users', Val(resp'.orderId)) # 0]_vars

\* The stored session token of every user is accepted by the token check
\* as long as it has not expired, and refused from its expiry on.
StoredTokenAccepted ==
    \A i \in 1..Len(users) :
        users[i].sessionToken # None =>
            IF now < Val(users[i].sessionToken).exp
            THEN VerifyToken(users[i].sessionToken, TRUE) = 0
            ELSE VerifyToken(users[i].sessionToken, TRUE) # 0

\* The step is a successful login or verify-payment.
IssuesToken ==
    /\ StepOf("login") \/ StepOf("verify-payment")
    /\ resp'.status = 200

\* C34: the token that a successful login or verify-payment returns is the
\* stored session token of the user when the response is produced; the
\* token check accepts the stored token until it expires, and the stored
\* token of a user changes only in a successful login or verify-payment of
\* that user, which stores the token it returns.
C34_ReturnedTokenIsCurrent ==
    /\ []StoredTokenAccepted
    /\ [][/\ IssuesToken =>
                /\ resp'.token # None
                /\ \E i \in 1..Len(users') :
                      /\ users'[i]._id = Val(resp'.token).uid
                      /\ users'[i].sessionToken = resp'.token
          /\ \A i \in 1..Len(users) :
                users'[i].sessionToken # users[i].sessionToken =>
                    /\ IssuesToken
                    /\ users'[i].sessionToken = resp'.token]_vars

\* A token that login issued, and that a request presented and had
\* accepted, is still the stored one and unexpired after the clock has
\* moved on since the login.
C34_Witness ==
    /\ req.op \in {"start-exam", "update-progress"} /\ resp.authorized
    /\ \E i \in 1..Len(users) :
          /\ users[i].sessionToken = req.token
          /\ IsLoginToken(Val(req.token))
          /\ Val(req.token).iat < now
          /\ now < Val(req.token).exp

\* C35: two successful issuances for one user never give the same token:
\* the token that a successful login or verify-payment returns differs from
\* the token stored for the user by the issuance before it, and from every
\* replaced token that is still remembered, also when both issuances fall
\* in the same second.
C35_TokensDistinct ==
    [][IssuesToken =>
          \A i \in 1..Len(users) :
              users[i]._id = Val(resp'.token).uid =>
                  /\ users[i].sessionToken # resp'.token
                  /\ Val(resp'.token) \notin Range(held)]_vars

\* C36: an entitlement never grants more exams than it has attempts,
\* however the start-exam requests interleave: every successful start-exam
\* takes exactly one attempt from the stored counter of the first paid
\* entitlement of the course, and the counter never goes below zero.
C36_SuccessesBounded ==
    /\ []AttemptsNonNegative
    /\ [][(StepOf("start-exam") /\ resp'.status = 200) =>
            \E i \in 1..Len(users) : \E k \in 1..Len(users[i].courses) :
                /\ users[i].mobile = Val(req'.token).mobile
                /\ users[i].courses[k].courseId = req'.courseId
                /\ users[i].courses[k].attemptsLeft > 0
                /\ users'[i].courses[k].attemptsLeft
                       = users[i].courses[k].attemptsLeft - 1]_vars


\* Statuses of a login that fails on its input or on the record it finds:
\* fields missing, no such user, name mismatch, no active course.
LoginFailures == {400, 404, 401, 403}

\* C37: a login that fails with 400, 404, 401 or 403 leaves every user
\* record as it was, so the legacy migration adds no entitlement and the
\* stored session token is kept; every token that the token check accepted
\* before the failed login is accepted after it.
C37_FailedLoginChangesNothing ==
    [][(StepOf("login") /\ resp'.status \in LoginFailures) =>
          /\ users' = users
          /\ \A t \in Current \cup Range(held) :
                VerifyToken(Some(t), TRUE) = 0 =>
                    (VerifyToken(Some(t), TRUE))' = 0]_vars

\* A login was refused for its name while the record holds a session token
\* that the token check accepts, next to the two entitlements of its
\* migration.
C37_Witness ==
    /\ req.op = "login" /\ resp.status = 401
    /\ \E i \in 1..Len(users) :
          /\ users[i].mobile = req.mobile
          /\ users[i].sessionToken # None
          /\ VerifyToken(users[i].sessionToken, TRUE) = 0
          /\ Len(users[i].courses) = 2
          /\ users[i].courses[1].orderId = LegacyMarker


\* C38: a create-order call that fails after validation (gateway not
\* configured, order refused by the gateway, return URL absent: status 500)
\* leaves the store as it was: no user is created, and no entitlement that
\* existed before the call has its paid flag, order id or expiry changed.
C38_FailedOrderChangesNothing ==
    [][(StepOf("create-order") /\ resp'.status = 500) =>
          /\ Len(users') = Len(users)
          /\ \A i \in 1..Len(users) : \A k \in 1..Len(users[i].courses) :
                /\ k <= Len(users'[i].courses)
                /\ users'[i].courses[k].isPaid = users[i].courses[k].isPaid
                /\ users'[i].courses[k].orderId = users[i].courses[k].orderId
                /\ users'[i].courses[k].expiryDate = users[i].courses[k].expiryDate]_vars
=============================================================================
